---- MODULE Spec2Model ----
(***************************************************************************)
(* Model of src/app.py: a Streamlit script that is re-run from top to      *)
(* bottom on every user interaction (upload, file removal, question        *)
(* submission).  One script run is a sequence of steps, one per block of   *)
(* the script; the session state and the widgets' values survive between   *)
(* runs, the script's local variables do not.                              *)
(*                                                                         *)
(* Text is modelled by what the script reads of it: its length and whether *)
(* it is whitespace-only, together with the document it came from.         *)
(***************************************************************************)
EXTENDS Naturals, Sequences, FiniteSets

(* ------------------------------ bounds --------------------------------- *)

\* Number of script runs (user interactions) explored in one session.
MaxRuns == 5

\* Number of distinct questions the user may type.
NumQuestions == 2

\* Characters of extractable text on a full text page of the sample books.
PageLen == 2500

(* ------------------------- program constants --------------------------- *)

chunk_size == 1000

chunk_overlap == 200

\* search_kwargs={"k": 4}
TopK == 4

(* ------------------------------ inputs --------------------------------- *)

NoFile == "None"

\* The PDFs the user may upload.
Docs == {"bookA", "bookB", "scanned", "blank", "corrupt"}

Questions == 1..NumQuestions

\* The value of the text input when nothing is typed ("" in the script).
NoQuestion == 0

TextPage(n) == [len |-> n, blank |-> FALSE]

\* page.extract_text() of every page of a document: a scanned page yields
\* the empty string, a whitespace-only page a non-empty blank string.
Pages(d) ==
    CASE d = "bookA"   -> <<TextPage(PageLen), TextPage(0), TextPage(PageLen)>>
      [] d = "bookB"   -> <<TextPage(chunk_size + chunk_overlap)>>
      [] d = "scanned" -> <<TextPage(0), TextPage(0)>>
      [] d = "blank"   -> <<[len |-> 3, blank |-> TRUE], TextPage(0)>>
      [] OTHER         -> <<>>

\* PdfReader(temp_path) raises on a file that is no readable PDF.
Corrupt(d) == d = "corrupt"

(* ------------------------------ values --------------------------------- *)

None == [kind |-> "None"]

EmptyText == [len |-> 0, blank |-> TRUE, doc |-> NoFile]

\* raw_text += text
Concat(raw, text, d) ==
    [len |-> raw.len + text.len, blank |-> raw.blank /\ text.blank, doc |-> d]

\* Mutant of StripIsEmpty: the test without .strip() (not raw_text).
StripIsEmpty_NoStrip(raw) == raw.len = 0

\* not raw_text.strip()
StripIsEmpty(raw) == raw.len = 0 \/ raw.blank

Min(a, b) == IF a < b THEN a ELSE b

(* --------------------- external collaborators -------------------------- *)

\* RecursiveCharacterTextSplitter(chunk_size, chunk_overlap).split_text:
\* windows of chunk_size characters, each starting chunk_overlap characters
\* before the end of the previous one.  A chunk is the range [lo, hi) of the
\* text of document doc.
SplitText(text) ==
    LET step == chunk_size - chunk_overlap
        n    == IF text.len <= chunk_size THEN 1
                ELSE ((text.len - chunk_size + step - 1) \div step) + 1
    IN  IF text.len = 0 THEN <<>>
        ELSE [k \in 1..n |->
                [doc |-> text.doc,
                 lo  |-> (k - 1) * step,
                 hi  |-> Min((k - 1) * step + chunk_size, text.len)]]

\* Distance between the embedding of a question and that of a chunk.
Distance(q, c) == ((c.lo \div 100) * (q + 2) + 3 * q) % 7

\* FAISS.from_texts(chunks, embeddings)
FromTexts(cs) ==
    [kind |-> "FAISS", doc |-> cs[1].doc, chunks |-> {cs[k] : k \in DOMAIN cs}]

Nearest(S, q) ==
    CHOOSE c \in S : \A d \in S :
        \/ Distance(q, c) < Distance(q, d)
        \/ Distance(q, c) = Distance(q, d) /\ c.lo <= d.lo

RECURSIVE NearestK(_, _, _)
NearestK(S, q, k) ==
    IF k = 0 \/ S = {} THEN <<>>
    ELSE LET c == Nearest(S, q)
         IN  <<c>> \o NearestK(S \ {c}, q, k - 1)

\* vectorstore.as_retriever(search_kwargs={"k": 4})
AsRetriever(vs) == [index |-> vs, k |-> TopK]

\* retriever.get_relevant_documents(query)
Retrieve(retriever, q) == NearestK(retriever.index.chunks, q, retriever.k)

\* RetrievalQA.from_chain_type(llm, "stuff", retriever, return_source_documents)
FromChainType(retriever) ==
    [kind |-> "RetrievalQA", llm |-> "llama3", retriever |-> retriever]

(* ------------------------------ state ---------------------------------- *)

VARIABLES
    session_state,  \* st.session_state: key -> value
    uploaded_file,  \* value of the file uploader widget
    question,       \* value of the text input widget
    inputShown,     \* the text input was rendered in the current/last run
    tempfiles,      \* files in the temp directory: [name, data]
    pc,             \* position of the script run; "wait" between runs
    temp_path,      \* local: name of this run's temp file (0: none)
    reader,         \* local: document opened by PdfReader
    num_pages,      \* local
    i,              \* local: pages extracted so far
    raw_text,       \* local
    chunks,         \* local
    vectorstore,    \* local
    shown,          \* what the run rendered
    outcome,        \* how the last run ended
    calls,          \* collaborators invoked in the current/last run
    builds,         \* index constructions since the last upload
    runs,           \* script runs started
    log             \* questions answered in this session

vars == <<session_state, uploaded_file, question, inputShown, tempfiles, pc,
          temp_path, reader, num_pages, i, raw_text, chunks, vectorstore,
          shown, outcome, calls, builds, runs, log>>

locals == <<temp_path, reader, num_pages, i, raw_text, chunks, vectorstore>>

Has(key) == key \in DOMAIN session_state

pdf_processed == Has("pdf_processed") /\ session_state["pdf_processed"]

Init ==
    /\ session_state = [k \in {} |-> None]
    /\ uploaded_file = NoFile
    /\ question = NoQuestion
    /\ inputShown = FALSE
    /\ tempfiles = {}
    /\ pc = "init"
    /\ temp_path = 0
    /\ reader = NoFile
    /\ num_pages = 0
    /\ i = 0
    /\ raw_text = EmptyText
    /\ chunks = <<>>
    /\ vectorstore = None
    /\ shown = {}
    /\ outcome = "running"
    /\ calls = {}
    /\ builds = 0
    /\ runs = 1
    /\ log = <<>>

(* ------------------------------ helpers -------------------------------- *)

\* st.session_state.<key> = val
SetKey(ss, key, val) ==
    [k \in DOMAIN ss \cup {key} |-> IF k = key THEN val ELSE ss[k]]

\* The run ends; the value of a widget the run did not render is dropped.
EndRun(how) ==
    /\ pc' = "wait"
    /\ outcome' = how
    /\ question' = IF inputShown THEN question ELSE NoQuestion

\* An exception leaves the script: nothing in the script catches it.
Raise == EndRun("exception")

\* A user interaction starts a new run of the whole script.
StartRun ==
    /\ pc' = "init"
    /\ runs' = runs + 1
    /\ temp_path' = 0
    /\ reader' = NoFile
    /\ num_pages' = 0
    /\ i' = 0
    /\ raw_text' = EmptyText
    /\ chunks' = <<>>
    /\ vectorstore' = None
    /\ shown' = {}
    /\ outcome' = "running"
    /\ calls' = {}
    /\ inputShown' = FALSE

(* --------------------------- the script run ---------------------------- *)

SessionStateInit ==
    /\ pc = "init"
    /\ session_state' =
         [k \in {"vectorstore", "qa_chain", "pdf_processed"} |->
            IF Has(k) THEN session_state[k]
            ELSE IF k = "pdf_processed" THEN FALSE ELSE None]
    /\ pc' = "uploader"
    /\ UNCHANGED <<uploaded_file, question, inputShown, tempfiles, locals,
                   shown, outcome, calls, builds, runs, log>>

\* if uploaded_file: ... else: st.info(...)
FileUploader ==
    /\ pc = "uploader"
    /\ IF uploaded_file = NoFile
       THEN /\ shown' = shown \cup {"info"}
            /\ EndRun("complete")
       ELSE /\ pc' = "save"
            /\ UNCHANGED <<shown, outcome, question>>
    /\ UNCHANGED <<session_state, uploaded_file, inputShown, tempfiles,
                   locals, calls, builds, runs, log>>

\* NamedTemporaryFile(delete=False): a fresh name per run.
SaveTempFile ==
    /\ pc = "save"
    /\ tempfiles' = tempfiles \cup {[name |-> runs, data |-> uploaded_file]}
    /\ temp_path' = runs
    /\ pc' = "preview"
    /\ UNCHANGED <<session_state, uploaded_file, question, inputShown, reader,
                   num_pages, i, raw_text, chunks, vectorstore, shown,
                   outcome, calls, builds, runs, log>>

FileAt(path) == CHOOSE f \in tempfiles : f.name = path

PdfPreview ==
    /\ pc = "preview"
    /\ \E f \in tempfiles : f.name = temp_path
    /\ shown' = shown \cup {"preview"}
    /\ pc' = "read"
    /\ UNCHANGED <<session_state, uploaded_file, question, inputShown,
                   tempfiles, locals, outcome, calls, builds, runs, log>>

\* reader = PdfReader(temp_path); num_pages = len(reader.pages)
OpenPdf ==
    /\ pc = "read"
    /\ LET data == FileAt(temp_path).data
       IN  IF Corrupt(data)
           THEN /\ Raise
                /\ UNCHANGED <<reader, num_pages>>
           ELSE /\ reader' = data
                /\ num_pages' = Len(Pages(data))
                /\ pc' = "extract"
                /\ UNCHANGED <<outcome, question>>
    /\ UNCHANGED <<session_state, uploaded_file, inputShown, tempfiles,
                   temp_path, i, raw_text, chunks, vectorstore, shown, calls,
                   builds, runs, log>>

\* One iteration of: for i, page in enumerate(reader.pages)
ExtractPage ==
    /\ pc = "extract"
    /\ i < num_pages
    /\ LET text == Pages(reader)[i + 1]
       IN  raw_text' = IF text.len > 0 THEN Concat(raw_text, text, reader)
                       ELSE raw_text
    /\ i' = i + 1
    /\ UNCHANGED <<session_state, uploaded_file, question, inputShown,
                   tempfiles, pc, temp_path, reader, num_pages, chunks,
                   vectorstore, shown, outcome, calls, builds, runs, log>>

\* Mutant of CheckText: the check indented into the page loop, so that it
\* runs after the first page instead of after the last.
CheckText_InLoop ==
    /\ pc = "extract"
    /\ i = Min(1, num_pages)
    /\ IF StripIsEmpty(raw_text)
       THEN /\ shown' = shown \cup {"error: No text found"}
            /\ EndRun("stopped")
       ELSE /\ pc' = "split"
            /\ UNCHANGED <<shown, outcome, question>>
    /\ UNCHANGED <<session_state, uploaded_file, inputShown, tempfiles,
                   locals, calls, builds, runs, log>>

\* if not raw_text.strip(): st.error(...); st.stop()
CheckText ==
    /\ pc = "extract"
    /\ i = num_pages
    /\ IF StripIsEmpty(raw_text)
       THEN /\ shown' = shown \cup {"error: No text found"}
            /\ EndRun("stopped")
       ELSE /\ pc' = "split"
            /\ UNCHANGED <<shown, outcome, question>>
    /\ UNCHANGED <<session_state, uploaded_file, inputShown, tempfiles,
                   locals, calls, builds, runs, log>>

SplitChunks ==
    /\ pc = "split"
    /\ chunks' = SplitText(raw_text)
    /\ calls' = calls \cup {"split"}
    /\ pc' = "embed"
    /\ UNCHANGED <<session_state, uploaded_file, question, inputShown,
                   tempfiles, temp_path, reader, num_pages, i, raw_text,
                   vectorstore, shown, outcome, builds, runs, log>>

\* Mutant of BuildKnowledgeBase: the index is built only while
\* pdf_processed is false and taken from the session state otherwise.
BuildKnowledgeBase_Cached ==
    /\ pc = "embed"
    /\ IF pdf_processed
       THEN /\ vectorstore' = session_state["vectorstore"]
            /\ pc' = "llm"
            /\ UNCHANGED <<session_state, calls, builds, outcome, question>>
       ELSE \E ok \in BOOLEAN :
              IF ok /\ chunks # <<>>
              THEN /\ vectorstore' = FromTexts(chunks)
                   /\ session_state' =
                        SetKey(session_state, "vectorstore", FromTexts(chunks))
                   /\ calls' = calls \cup {"embed", "index"}
                   /\ builds' = builds + 1
                   /\ pc' = "llm"
                   /\ UNCHANGED <<outcome, question>>
              ELSE /\ Raise
                   /\ calls' = calls \cup {"embed"}
                   /\ UNCHANGED <<vectorstore, session_state, builds>>
    /\ UNCHANGED <<uploaded_file, inputShown, tempfiles, temp_path, reader,
                   num_pages, i, raw_text, chunks, shown, runs, log>>

\* Embeddings + FAISS.from_texts; either may raise.
BuildKnowledgeBase ==
    /\ pc = "embed"
    /\ \E ok \in BOOLEAN :
         IF ok /\ chunks # <<>>
         THEN /\ vectorstore' = FromTexts(chunks)
              /\ session_state' =
                   SetKey(session_state, "vectorstore", FromTexts(chunks))
              /\ calls' = calls \cup {"embed", "index"}
              /\ builds' = builds + 1
              /\ pc' = "llm"
              /\ UNCHANGED <<outcome, question>>
         ELSE /\ Raise
              /\ calls' = calls \cup {"embed"}
              /\ UNCHANGED <<vectorstore, session_state, builds>>
    /\ UNCHANGED <<uploaded_file, inputShown, tempfiles, temp_path, reader,
                   num_pages, i, raw_text, chunks, shown, runs, log>>

\* Mutant of SetupQAChain: pdf_processed is set before the chain is built,
\* so it stays set when building the chain raises.
SetupQAChain_FlagFirst ==
    /\ pc = "llm"
    /\ \E ok \in BOOLEAN :
         IF ok
         THEN /\ session_state' =
                   SetKey(SetKey(session_state, "qa_chain",
                                 FromChainType(AsRetriever(vectorstore))),
                          "pdf_processed", TRUE)
              /\ calls' = calls \cup {"chain"}
              /\ shown' = shown \cup {"success"}
              /\ pc' = "qa"
              /\ UNCHANGED <<outcome, question>>
         ELSE /\ session_state' = SetKey(session_state, "pdf_processed", TRUE)
              /\ Raise
              /\ UNCHANGED <<calls, shown>>
    /\ UNCHANGED <<uploaded_file, inputShown, tempfiles, locals, builds, runs,
                   log>>

\* Ollama + RetrievalQA.from_chain_type; either may raise.
SetupQAChain ==
    /\ pc = "llm"
    /\ \E ok \in BOOLEAN :
         IF ok
         THEN /\ session_state' =
                   SetKey(SetKey(session_state, "qa_chain",
                                 FromChainType(AsRetriever(vectorstore))),
                          "pdf_processed", TRUE)
              /\ calls' = calls \cup {"chain"}
              /\ shown' = shown \cup {"success"}
              /\ pc' = "qa"
              /\ UNCHANGED <<outcome, question>>
         ELSE /\ Raise
              /\ UNCHANGED <<session_state, calls, shown>>
    /\ UNCHANGED <<uploaded_file, inputShown, tempfiles, locals, builds, runs,
                   log>>

\* if st.session_state.pdf_processed: question = st.text_input(...)
QASection ==
    /\ pc = "qa"
    /\ IF pdf_processed
       THEN /\ inputShown' = TRUE
            /\ pc' = IF question # NoQuestion THEN "ask" ELSE "cleanup"
       ELSE /\ pc' = "cleanup"
            /\ UNCHANGED inputShown
    /\ UNCHANGED <<session_state, uploaded_file, question, tempfiles, locals,
                   shown, outcome, calls, builds, runs, log>>

\* Mutant of AskQuestion: the chain keeps a conversation memory, so the
\* query it retrieves with depends on the questions answered before.
AskQuestion_WithMemory ==
    /\ pc = "ask"
    /\ LET chain == session_state["qa_chain"]
       IN  \E ok \in BOOLEAN :
             IF ok /\ chain # None
             THEN /\ log' = Append(log,
                       [q       |-> question,
                        file    |-> uploaded_file,
                        index   |-> chain.retriever.index.doc,
                        sources |-> Retrieve(chain.retriever,
                                             question + Len(log))])
                  /\ calls' = calls \cup {"answer"}
                  /\ shown' = shown \cup {"answer"}
                  /\ pc' = "cleanup"
                  /\ UNCHANGED <<outcome, question>>
             ELSE /\ Raise
                  /\ UNCHANGED <<log, calls, shown>>
    /\ UNCHANGED <<session_state, uploaded_file, inputShown, tempfiles,
                   locals, builds, runs>>

\* result = st.session_state.qa_chain({"query": question})
AskQuestion ==
    /\ pc = "ask"
    /\ LET chain == session_state["qa_chain"]
       IN  \E ok \in BOOLEAN :
             IF ok /\ chain # None
             THEN /\ log' = Append(log,
                       [q       |-> question,
                        file    |-> uploaded_file,
                        index   |-> chain.retriever.index.doc,
                        sources |-> Retrieve(chain.retriever, question)])
                  /\ calls' = calls \cup {"answer"}
                  /\ shown' = shown \cup {"answer"}
                  /\ pc' = "cleanup"
                  /\ UNCHANGED <<outcome, question>>
             ELSE /\ Raise
                  /\ UNCHANGED <<log, calls, shown>>
    /\ UNCHANGED <<session_state, uploaded_file, inputShown, tempfiles,
                   locals, builds, runs>>

\* if os.path.exists(temp_path): os.unlink(temp_path)
Cleanup ==
    /\ pc = "cleanup"
    /\ tempfiles' = {f \in tempfiles : f.name # temp_path}
    /\ EndRun("complete")
    /\ UNCHANGED <<session_state, uploaded_file, inputShown, locals, shown,
                   calls, builds, runs, log>>

(* ------------------------- user interactions --------------------------- *)

Upload(d) ==
    /\ pc = "wait"
    /\ runs < MaxRuns
    /\ uploaded_file' = d
    /\ builds' = 0
    /\ StartRun
    /\ UNCHANGED <<session_state, question, tempfiles, log>>

RemoveFile ==
    /\ pc = "wait"
    /\ runs < MaxRuns
    /\ uploaded_file # NoFile
    /\ uploaded_file' = NoFile
    /\ builds' = 0
    /\ StartRun
    /\ UNCHANGED <<session_state, question, tempfiles, log>>

SubmitQuestion(q) ==
    /\ pc = "wait"
    /\ runs < MaxRuns
    /\ inputShown
    /\ q # question
    /\ question' = q
    /\ StartRun
    /\ UNCHANGED <<session_state, uploaded_file, tempfiles, builds, log>>

Next ==
    \/ SessionStateInit
    \/ FileUploader
    \/ SaveTempFile
    \/ PdfPreview
    \/ OpenPdf
    \/ ExtractPage
    \/ CheckText
    \/ SplitChunks
    \/ BuildKnowledgeBase
    \/ SetupQAChain
    \/ QASection
    \/ AskQuestion
    \/ Cleanup
    \/ \E d \in Docs : Upload(d)
    \/ RemoveFile
    \/ \E q \in Questions : SubmitQuestion(q)

Spec == Init /\ [][Next]_vars

(* ------------------------------ claims --------------------------------- *)

\* The document yields no extractable text: every page's text is empty or
\* whitespace-only.
NoText(d) ==
    \A k \in DOMAIN Pages(d) : Pages(d)[k].len = 0 \/ Pages(d)[k].blank

RunEnded == pc = "wait"

\* C1: every run that handled an uploaded file leaves no temp file of its
\* own behind when it ends, whichever way it ends.
C1_TempFileRemovedOnEveryExit ==
    (RunEnded /\ temp_path # 0) => ~(\E f \in tempfiles : f.name = temp_path)

\* C2: for an uploaded document with no extractable text the run shows the
\* "No text found" error and halts; chunking, embedding, index and QA-chain
\* construction are never invoked in that run and no question is answered.
C2_NoTextHaltsBeforeIndexing ==
    (uploaded_file \in Docs /\ ~Corrupt(uploaded_file) /\ NoText(uploaded_file))
        => /\ calls = {}
           /\ pc \notin {"split", "embed", "llm", "qa", "ask", "cleanup"}
           /\ RunEnded => /\ outcome = "stopped"
                          /\ "error: No text found" \in shown
                          /\ "answer" \notin shown

\* C2 witness: a whitespace-only document was uploaded after a book had been
\* processed, and its run has halted.
C2_Witness ==
    /\ RunEnded
    /\ uploaded_file = "blank"
    /\ outcome = "stopped"
    /\ pdf_processed

\* C3: after a new upload that fails or halts, and after the file is
\* removed, the session is back to Idle: pdf_processed is false and no index
\* or QA chain of the earlier document remains.
C3_FailedUploadResetsSession ==
    (RunEnded /\ (\/ uploaded_file = NoFile
                  \/ Corrupt(uploaded_file)
                  \/ NoText(uploaded_file)))
        => /\ ~pdf_processed
           /\ session_state["vectorstore"] = None
           /\ session_state["qa_chain"] = None

\* C4: the index and the QA chain are built once per uploaded document;
\* question submissions against the same upload do not build them again.
C4_IndexBuiltOncePerUpload == builds <= 1

\* C5: no exception raised while processing an upload leaves the script; it
\* is caught by the script and rendered as an error message.
C5_NoExceptionLeavesScript == outcome # "exception"

\* The stages of the current run, read off the program's state.
Uploaded ==
    \E f \in tempfiles : f.name = temp_path /\ f.data = uploaded_file

Extracted ==
    /\ reader = uploaded_file
    /\ num_pages = Len(Pages(uploaded_file))
    /\ i = num_pages
    /\ ~StripIsEmpty(raw_text)

Indexed ==
    /\ vectorstore # None
    /\ vectorstore.doc = uploaded_file
    /\ session_state["vectorstore"] = vectorstore

Ready ==
    /\ pdf_processed
    /\ session_state["qa_chain"] # None
    /\ session_state["qa_chain"].retriever.index = vectorstore

\* C6: within a run the stages occur only in the order Uploaded, Extracted,
\* Indexed, Ready: a page is read only once the temp file is written,
\* chunking and embedding start only once every page is extracted and the
\* text is non-empty, the QA chain is built only once the index exists, and
\* a question is answered only in Ready.
C6_StageOrder ==
    [][ /\ (pc = "read" \/ i' > i) => Uploaded
        /\ ("split" \in calls' \ calls \/ "embed" \in calls' \ calls)
              => Uploaded /\ Extracted
        /\ ("chain" \in calls' \ calls) => Extracted /\ Indexed
        /\ (Len(log') > Len(log)) => Extracted /\ Indexed /\ Ready
      ]_vars

\* C6 witness: two question/answer cycles have followed one another in Ready.
C6_Witness ==
    /\ Len(log) >= 2
    /\ log[1].file = log[2].file
    /\ RunEnded
    /\ outcome = "complete"

\* C8: a question's retrieved sources number at most 4 and depend only on
\* the question and the uploaded document: the same question against the
\* same document always gets the same sources in the same order, whatever
\* was asked in between.
C8_SourcesDependOnQuestionAndDocument ==
    /\ \A a \in DOMAIN log : Len(log[a].sources) <= 4
    /\ \A a, b \in DOMAIN log :
          (log[a].file = log[b].file /\ log[a].q = log[b].q)
              => log[a].sources = log[b].sources

\* C8 witness: a question was asked, then another one, then the first again,
\* against a document with more than 4 chunks.
C8_Witness ==
    \E a, b, c \in DOMAIN log :
        /\ a < b /\ b < c
        /\ log[a].q = log[c].q /\ log[a].q # log[b].q
        /\ log[a].file = log[b].file /\ log[b].file = log[c].file
        /\ Len(log[c].sources) = 4
        /\ Has("vectorstore")
        /\ session_state["vectorstore"] # None
        /\ Cardinality(session_state["vectorstore"].chunks) > 4

\* C9: every answered question was answered from an index built from the
\* document that was uploaded at the moment of the answer.
C9_AnswerFromCurrentDocument ==
    \A a \in DOMAIN log : log[a].file \in Docs /\ log[a].index = log[a].file

\* C9 witness: questions were answered against two different documents in
\* one session, the second while the first one's session state was present.
C9_Witness ==
    \E a, b \in DOMAIN log : a < b /\ log[a].file # log[b].file

\* C10: pdf_processed is true only if vectorstore and qa_chain are both
\* set, so the Q&A section never calls a missing QA chain.
C10_ProcessedImpliesChain ==
    /\ pdf_processed => /\ session_state["vectorstore"] # None
                        /\ session_state["qa_chain"] # None
    /\ pc = "ask" => session_state["qa_chain"] # None

\* C10 witness: a run has failed with an exception while pdf_processed was
\* true.
C10_Witness ==
    /\ RunEnded
    /\ outcome = "exception"
    /\ pdf_processed
    /\ "chain" \notin calls

====
